---- MODULE Spec2Model ----
(***************************************************************************)
(* Model of vscode/scripts/patch_run_in_terminal.py.                       *)
(*                                                                         *)
(* A text is a sequence of lexemes.  A lexeme is a piece of JavaScript     *)
(* text that the three regular expressions of the script treat as a unit   *)
(* (an identifier, a punctuation character, a newline, the marker comment, *)
(* or a block of replacement text in which no pattern can match).  An      *)
(* offset is a number of lexemes, counted from 0 as Python counts          *)
(* characters, and spans are half-open as match.span() returns them.       *)
(* Lexemes are named by the text they stand for wherever that is short.    *)
(*                                                                         *)
(* The edits and the counters of compute_replacements are those of the     *)
(* script on the text the lexemes spell.  So is the spliced text whenever  *)
(* the edits are pairwise disjoint; when two edits overlap the script      *)
(* splices with stale offsets and cuts inside a lexeme, and the model cuts *)
(* at a lexeme boundary instead.                                           *)
(*                                                                         *)
(* main is modelled over the candidate files of one search root.           *)
(***************************************************************************)
EXTENDS Integers, Sequences, FiniteSets, TLC

(***************************************************************************)
(* Bounds of the model.                                                    *)
(***************************************************************************)
MaxFrags == 3        \* fragments concatenated into one buffer
MaxTextLen == 11     \* text_length handed to build_windows (windows specification)
MaxAnchors == 3      \* anchor positions handed to build_windows
MaxSpliceLen == 3    \* length of the text handed to apply_replacements alone
MaxEdits == 2        \* edits handed to apply_replacements alone
MaxFiles == 2        \* candidate files of one run of main

(***************************************************************************)
(* The window margins.  The script uses 2000 and 6000 characters; offsets  *)
(* here are lexemes, and the margins are scaled by 1000 so that a buffer   *)
(* of a few fragments can hold occurrences outside every window.           *)
(***************************************************************************)
MarginBefore == 2
MarginAfter == 6

(***************************************************************************)
(* Lexemes.                                                                *)
(***************************************************************************)
ANCHOR == "'run_in_terminal'"                 \* a string literal holding the anchor
MARKER == "/* patched: run_in_terminal */"
NL == "<nl>"                                  \* the newline character
AWAIT == "await "                             \* the keyword and the blank after it
URI_FILE_HEAD == "((pathValue) => {...const fileUri = "
URI_FILE_TAIL == ";const fs = ...hasProvider...})("
G_OPEN == "((("
G_HAS == ")?.hasProvider?.("
G_OR == ")) ?? (("
G_CAN == ")?.canHandleResource?.("
G_THEN == ")) ?? false ? ("
G_ELSE == " : "

\* text in which re.finditer(r"run_in_terminal") finds an occurrence
AnchorLex == {ANCHOR, MARKER}
\* \s
Ws == {NL}
\* IDENT = [_A-Za-z$][_A-Za-z0-9$]*
IdentLex == {"a", "URI", "stat", "exists", "resolve", "file", "uri", "fsPath",
             "hasProvider", "canHandleResource", "Promise", "true", "pathValue"}
\* (?:await|yield)\s+
PrefixLex == {AWAIT}
\* stat|exists|resolve
MethodLex == {"stat", "exists", "resolve"}
\* lexemes whose text holds "hasProvider" or "canHandleResource"
GuardWordLex == {"hasProvider", "canHandleResource", G_HAS, G_CAN, URI_FILE_TAIL}
\* blocks of replacement text; they hold parentheses of their own
GlueLex == {URI_FILE_HEAD, URI_FILE_TAIL, G_OPEN, G_HAS, G_OR, G_CAN, G_THEN}

(***************************************************************************)
(* Python string primitives.                                               *)
(***************************************************************************)
Min(a, b) == IF a <= b THEN a ELSE b
Max(a, b) == IF a >= b THEN a ELSE b
SetMax(S) == CHOOSE x \in S : \A y \in S : y <= x

\* text[k], or a lexeme that matches nothing beyond the end of the text
At(text, k) == IF k >= 0 /\ k < Len(text) THEN text[k + 1] ELSE "<eof>"

\* text[a:b] for non-negative a and b (Python clamps both to len(text))
Slice(text, a, b) ==
    LET lo == Min(a, Len(text))
        hi == Min(b, Len(text))
    IN IF lo >= hi THEN <<>> ELSE SubSeq(text, lo + 1, hi)

\* MARKER in text
Contains(text, lexemes) == \E k \in 1..Len(text) : text[k] \in lexemes

\* \s* forwards from k, and backwards from k
RECURSIVE SkipWs(_, _)
SkipWs(text, k) == IF At(text, k) \in Ws THEN SkipWs(text, k + 1) ELSE k

RECURSIVE BackWs(_, _)
BackWs(text, k) == IF At(text, k - 1) \in Ws THEN BackWs(text, k - 1) ELSE k

\* offset of the first ")" at or after k, -1 when there is none
RECURSIVE FirstClose(_, _)
FirstClose(text, k) ==
    IF k >= Len(text) THEN -1
    ELSE IF text[k + 1] = ")" THEN k ELSE FirstClose(text, k + 1)

(***************************************************************************)
(* \(\s*(?P<arg>[^)]+?)\s*\) with the "(" at offset open: the argument     *)
(* runs to the first ")", stripped of the blanks around it; it holds at    *)
(* least one character, so "()" does not match and "( )" has argument " ". *)
(***************************************************************************)
ParenArg(text, open) ==
    LET close == FirstClose(text, open + 1)
        a == SkipWs(text, open + 1)
    IN IF At(text, open) # "(" \/ close <= open + 1
       THEN [ok |-> FALSE]
       ELSE IF a >= close
            THEN [ok |-> TRUE, arg_start |-> close - 1, arg_end |-> close, close |-> close]
            ELSE [ok |-> TRUE, arg_start |-> a, arg_end |-> BackWs(text, close), close |-> close]

(***************************************************************************)
(* SERVICE_EXPR = IDENT(?:\??\.IDENT)* starting at offset k: the set of    *)
(* offsets at which a chain of identifiers starting at k can end.          *)
(***************************************************************************)
RECURSIVE ChainExt(_, _)
ChainExt(text, q) ==
    {q} \cup (IF At(text, q) \in {".", "?."} /\ At(text, q + 1) \in IdentLex
              THEN ChainExt(text, q + 2) ELSE {})

SERVICE_EXPR(text, k) == IF At(text, k) \in IdentLex THEN ChainExt(text, k + 1) ELSE {}

(***************************************************************************)
(* GUARD_PATTERN tried at offset i.  The service is greedy: the longest    *)
(* chain that a ".method(arg)" follows.                                    *)
(***************************************************************************)
GUARD_PATTERN(text, i) ==
    LET p == IF At(text, i) \in PrefixLex THEN SkipWs(text, i + 1) ELSE i
        ends == {q \in SERVICE_EXPR(text, p) :
                    /\ At(text, q) = "."
                    /\ At(text, q + 1) \in MethodLex
                    /\ ParenArg(text, q + 2).ok}
    IN IF ends = {} THEN [ok |-> FALSE]
       ELSE LET q == SetMax(ends)
                pa == ParenArg(text, q + 2)
                e1 == SkipWs(text, pa.close + 1)
                semi == At(text, e1) = ";"
            IN [ok |-> TRUE, start |-> i, end |-> IF semi THEN e1 + 1 ELSE e1,
                prefix |-> Slice(text, i, p),
                service |-> Slice(text, p, q),
                method |-> At(text, q + 1),
                arg |-> Slice(text, pa.arg_start, pa.arg_end),
                trailing |-> IF semi THEN <<";">> ELSE <<>>]

(***************************************************************************)
(* URI_PATTERN tried at offset i.                                          *)
(***************************************************************************)
URI_PATTERN(text, i) ==
    LET ends == {q \in SERVICE_EXPR(text, i) :
                    /\ At(text, q) = "."
                    /\ At(text, q + 1) = "file"
                    /\ At(text, q + 2) = "("
                    /\ LET a == SkipWs(text, q + 3)
                       IN /\ At(text, a) \in IdentLex
                          /\ At(text, a + 1) = "."
                          /\ At(text, a + 2) = "uri"
                          /\ At(text, a + 3) = "."
                          /\ At(text, a + 4) = "fsPath"
                          /\ At(text, SkipWs(text, a + 5)) = ")"}
    IN IF ends = {} THEN [ok |-> FALSE]
       ELSE LET q == SetMax(ends)
                a == SkipWs(text, q + 3)
            IN [ok |-> TRUE, start |-> i, end |-> SkipWs(text, a + 5) + 1,
                target |-> Slice(text, a, a + 1)]

(***************************************************************************)
(* URI_FILE_PATTERN tried at offset i.                                     *)
(***************************************************************************)
URI_FILE_PATTERN(text, i) ==
    LET pa == ParenArg(text, i + 3)
    IN IF At(text, i) = "URI" /\ At(text, i + 1) = "." /\ At(text, i + 2) = "file" /\ pa.ok
       THEN [ok |-> TRUE, start |-> i, end |-> pa.close + 1,
             target |-> Slice(text, pa.arg_start, pa.arg_end)]
       ELSE [ok |-> FALSE]

MatchAt(pattern, text, i) ==
    CASE pattern = "GUARD" -> GUARD_PATTERN(text, i)
      [] pattern = "URI" -> URI_PATTERN(text, i)
      [] pattern = "URI_FILE" -> URI_FILE_PATTERN(text, i)

(***************************************************************************)
(* pattern.finditer(text): the matches from left to right, each search     *)
(* resuming where the previous match ended.                                *)
(***************************************************************************)
RECURSIVE finditer_from(_, _, _)
finditer_from(pattern, text, pos) ==
    IF pos >= Len(text) THEN <<>>
    ELSE LET m == MatchAt(pattern, text, pos)
         IN IF m.ok THEN <<m>> \o finditer_from(pattern, text, m.end)
            ELSE finditer_from(pattern, text, pos + 1)

finditer(pattern, text) == finditer_from(pattern, text, 0)

\* [m.start() for m in re.finditer(r"run_in_terminal", text)]
RECURSIVE run_positions_from(_, _)
run_positions_from(text, pos) ==
    IF pos >= Len(text) THEN <<>>
    ELSE (IF text[pos + 1] \in AnchorLex THEN <<pos>> ELSE <<>>)
         \o run_positions_from(text, pos + 1)

run_positions(text) == run_positions_from(text, 0)

(***************************************************************************)
(* build_windows                                                           *)
(***************************************************************************)
merge_mutant(start, prev_end) == start < prev_end
merge(start, prev_end) == start <= prev_end

RECURSIVE build_windows_loop(_, _, _, _)
build_windows_loop(positions, k, text_length, windows) ==
    IF k > Len(positions) THEN windows
    ELSE LET pos == positions[k]
             start == Max(0, pos - MarginBefore)
             end == Min(text_length, pos + MarginAfter)
             n == Len(windows)
         IN IF n > 0 /\ merge(start, windows[n][2])
            THEN build_windows_loop(positions, k + 1, text_length,
                     [windows EXCEPT ![n] = <<windows[n][1], Max(windows[n][2], end)>>])
            ELSE build_windows_loop(positions, k + 1, text_length,
                     Append(windows, <<start, end>>))

build_windows(positions, text_length) == build_windows_loop(positions, 1, text_length, <<>>)

in_window_mutant(start, windows) == TRUE
in_window(start, windows) ==
    \E k \in 1..Len(windows) : windows[k][1] <= start /\ start <= windows[k][2]

(***************************************************************************)
(* compute_replacements: the replacement texts.                            *)
(***************************************************************************)
\* "hasProvider" in match.group(0) or "canHandleResource" in match.group(0)
guard_shape_present(matched) == Contains(matched, GuardWordLex)

fallback(method) ==
    IF method = "exists" THEN <<"Promise", ".", "resolve", "(", "true", ")">>
    ELSE <<"Promise", ".", "resolve", "(", ")">>

\* f"{prefix}{guard_expr}{trailing}/* patched: run_in_terminal */"
guard_replacement(m) ==
    m.prefix
    \o <<G_OPEN>> \o m.service \o <<G_HAS>> \o m.arg
    \o <<G_OR>> \o m.service \o <<G_CAN>> \o m.arg
    \o <<G_THEN>> \o m.service \o <<")", ".", m.method, "(">> \o m.arg \o <<")">>
    \o <<G_ELSE>> \o fallback(m.method) \o <<")">>
    \o m.trailing \o <<MARKER>>

\* f"{match.group('target')}.uri"
uri_replacement(m) == m.target \o <<".", "uri">>

\* "((pathValue) => {" ... "const fileUri = URI.file(pathValue);" ... "})(" + target + ")/* patched: run_in_terminal */"
uri_file_replacement(m) ==
    <<URI_FILE_HEAD, "URI", ".", "file", "(", "pathValue", ")", URI_FILE_TAIL>>
    \o m.target \o <<")", MARKER>>

\* f"\n{MARKER}\n"
marker_text == <<NL, MARKER, NL>>

is_relevant_mutant(windows) == TRUE
\* relevant = bool(windows)
is_relevant(windows) == Len(windows) > 0

needs_marker_insert_mutant(marker_present, relevant) == FALSE
\* if not marker_present and relevant
needs_marker_insert(marker_present, relevant) == ~marker_present /\ relevant

marker_insert_at_mutant(text) == 0
\* insert_at = len(text)
marker_insert_at(text) == Len(text)

Edit(start, end, replacement) == <<start, end, replacement>>

PatchResult(path, relevant, patched, uri, uri_file, guard, marker_added, marker_present, is_workbench) ==
    [path |-> path, relevant |-> relevant, patched |-> patched,
     uri_replacements |-> uri, uri_file_replacements |-> uri_file,
     guard_replacements |-> guard, marker_added |-> marker_added,
     marker_present |-> marker_present, is_workbench |-> is_workbench]

\* Path(): the path compute_replacements leaves for patch_file to fill in
NoPath == 0

(***************************************************************************)
(* compute_replacements(text): the edits and the PatchResult.              *)
(***************************************************************************)
\* if not in_window(start, windows): continue
RECURSIVE windowed(_, _)
windowed(matches, windows) ==
    IF matches = <<>> THEN <<>>
    ELSE (IF in_window(Head(matches).start, windows) THEN <<Head(matches)>> ELSE <<>>)
         \o windowed(Tail(matches), windows)

\* if "hasProvider" in matched or "canHandleResource" in matched: continue
RECURSIVE skip_guarded(_, _)
skip_guarded(matches, text) ==
    IF matches = <<>> THEN <<>>
    ELSE (IF guard_shape_present(Slice(text, Head(matches).start, Head(matches).end))
          THEN <<>> ELSE <<Head(matches)>>)
         \o skip_guarded(Tail(matches), text)

\* replacements.append((start, end, replacement)) for each match kept
replacement_of(pattern, m) ==
    CASE pattern = "GUARD" -> guard_replacement(m)
      [] pattern = "URI" -> uri_replacement(m)
      [] pattern = "URI_FILE" -> uri_file_replacement(m)

RECURSIVE edits_of(_, _)
edits_of(pattern, matches) ==
    IF matches = <<>> THEN <<>>
    ELSE <<Edit(Head(matches).start, Head(matches).end, replacement_of(pattern, Head(matches)))>>
         \o edits_of(pattern, Tail(matches))

\* the edit that appends "\n" + MARKER + "\n"
marker_edit(text) == Edit(marker_insert_at(text), marker_insert_at(text), marker_text)

\* the replacements and the PatchResult that compute_replacements returns
make_result(text, relevant, rule_edits, uri, uri_file, guard, in_text, by_guard, insert) ==
    IF ~relevant
    THEN [replacements |-> <<>>,
          result |-> PatchResult(NoPath, FALSE, FALSE, 0, 0, 0, FALSE, in_text, FALSE)]
    ELSE [replacements |-> IF insert THEN Append(rule_edits, marker_edit(text)) ELSE rule_edits,
          result |-> PatchResult(NoPath, relevant, Len(rule_edits) > 0 \/ insert,
                                 uri, uri_file, guard,
                                 by_guard \/ insert, in_text \/ by_guard \/ insert, FALSE)]

\* marker_present = MARKER in text; a guard rewrite marks the marker as added
\* and present; otherwise the marker is inserted when it is not present
ensure_marker(text, relevant, guards, uris, uri_files, in_text) ==
    make_result(text, relevant,
                edits_of("GUARD", guards) \o edits_of("URI", uris) \o edits_of("URI_FILE", uri_files),
                Len(uris), Len(uri_files), Len(guards), in_text,
                Len(guards) > 0 /\ ~in_text,
                needs_marker_insert(in_text \/ (Len(guards) > 0 /\ ~in_text), relevant))

\* the three loops over the matches of the rules
apply_rules(text, windows) ==
    ensure_marker(text, is_relevant(windows),
                  skip_guarded(windowed(finditer("GUARD", text), windows), text),
                  windowed(finditer("URI", text), windows),
                  windowed(finditer("URI_FILE", text), windows),
                  Contains(text, {MARKER}))

compute_replacements(text) == apply_rules(text, build_windows(run_positions(text), Len(text)))

(***************************************************************************)
(* apply_replacements                                                      *)
(***************************************************************************)
\* replacements.sort(key=lambda item: item[0], reverse=True): the sort is
\* stable, so edits with equal starts keep the order of the list
RECURSIVE sort_insert(_, _)
sort_insert(sorted, e) ==
    IF sorted = <<>> THEN <<e>>
    ELSE IF Head(sorted)[1] >= e[1] THEN <<Head(sorted)>> \o sort_insert(Tail(sorted), e)
    ELSE <<e>> \o sorted

RECURSIVE sort_descending(_)
sort_descending(replacements) ==
    IF replacements = <<>> THEN <<>>
    ELSE sort_insert(sort_descending(SubSeq(replacements, 1, Len(replacements) - 1)),
                     replacements[Len(replacements)])

\* text = text[:start] + replacement + text[end:]
splice(text, e) == Slice(text, 0, e[1]) \o e[3] \o Slice(text, e[2], Len(text))

RECURSIVE splice_all(_, _)
splice_all(text, replacements) ==
    IF replacements = <<>> THEN text
    ELSE splice_all(splice(text, Head(replacements)), Tail(replacements))

apply_replacements(text, replacements) ==
    IF replacements = <<>> THEN text
    ELSE splice_all(text, sort_descending(replacements))

(***************************************************************************)
(* patch_file(path) on a file that holds `original`: the PatchResult, the  *)
(* text the file holds afterwards and whether write_text was called.  The  *)
(* record keeps the windows and the edits of the call for the properties.  *)
(***************************************************************************)
write_text(original, patched, result, trace) ==
    IF ~result.relevant
    THEN trace @@ [result |-> result, output |-> original, wrote |-> FALSE]
    ELSE IF patched # original
         THEN trace @@ [result |-> [result EXCEPT !.patched = TRUE],
                        output |-> patched, wrote |-> TRUE]
         ELSE trace @@ [result |-> [result EXCEPT !.patched = FALSE],
                        output |-> original, wrote |-> FALSE]

patch_text(path, original, is_workbench, computed, windows) ==
    write_text(original, apply_replacements(original, computed.replacements),
               [computed.result EXCEPT !.path = path, !.is_workbench = is_workbench],
               [input |-> original, windows |-> windows, replacements |-> computed.replacements])

patch_file(path, original, is_workbench) ==
    patch_text(path, original, is_workbench, compute_replacements(original),
               build_windows(run_positions(original), Len(original)))

NoCall ==
    [input |-> <<>>, windows |-> <<>>, replacements |-> <<>>,
     result |-> PatchResult(NoPath, FALSE, FALSE, 0, 0, 0, FALSE, FALSE, FALSE),
     output |-> <<>>, wrote |-> FALSE]

(***************************************************************************)
(* The buffers the specifications start from: concatenations of fragments *)
(* of bundle text.                                                         *)
(***************************************************************************)
Fragments ==
    { <<ANCHOR>>,
      <<",">>,
      <<MARKER>>,
      <<"a", ".", "stat", "(", "a", ")", ";">>,
      <<AWAIT, "a", ".", "exists", "(", "a", ")", ";">>,
      <<"a", ".", "resolve", "(", "hasProvider", ")", ";">>,
      <<"a", ".", "file", "(", "a", ".", "uri", ".", "fsPath", ")", ",">>,
      <<"URI", ".", "file", "(", "a", ")", ",">>,
      <<"URI", ".", "file", "(", "a", ".", "uri", ".", "fsPath", ")", ",">> }

RECURSIVE Texts(_)
Texts(n) ==
    IF n = 0 THEN {<<>>}
    ELSE Texts(n - 1) \cup {t \o f : t \in Texts(n - 1), f \in Fragments}

VARIABLES
    positions,      \* windows: the anchor offsets handed to build_windows
    text_length,    \* windows: the text length handed to build_windows
    windows,        \* windows: what build_windows returned
    sp_text,        \* splicer: the text handed to apply_replacements
    sp_edits,       \* splicer: the edits handed to apply_replacements
    sp_out,         \* splicer: what apply_replacements returned
    buffer,         \* pipeline: the text the file holds
    call,           \* pipeline: the last patch_file call
    files,          \* main: per candidate file, its name and what its I/O does
    disk,           \* main: per candidate file, the text it holds
    order,          \* main: the files in the order main patches them
    queue,          \* main: the files main has yet to patch
    results,        \* main: the list results
    log,            \* main: the patch_file calls behind results, in the same order
    raised,         \* main: the files whose patch_file raised
    require_match,  \* main: should_require_match(parsed)
    exit_code,      \* main: the value main returned
    verdict,        \* main: the return statement main left by
    pc              \* the step the specification is at

winVars == <<positions, text_length, windows>>
spliceVars == <<sp_text, sp_edits, sp_out>>
pipeVars == <<buffer, call>>
mainVars == <<files, disk, order, queue, results, log, raised, require_match, exit_code, verdict>>
vars == <<winVars, spliceVars, pipeVars, mainVars, pc>>

WinIdle == positions = <<>> /\ text_length = 0 /\ windows = <<>>
SpliceIdle == sp_text = <<>> /\ sp_edits = <<>> /\ sp_out = <<>>
PipeIdle == buffer = <<>> /\ call = NoCall
MainIdle ==
    /\ files = <<>> /\ disk = <<>> /\ order = <<>> /\ queue = <<>>
    /\ results = <<>> /\ log = <<>> /\ raised = {}
    /\ require_match = FALSE /\ exit_code = 0 /\ verdict = "running"

(***************************************************************************)
(* SpecWindows: build_windows on every ascending list of anchor offsets.   *)
(***************************************************************************)
RECURSIVE Ascending(_)
Ascending(S) ==
    IF S = {} THEN <<>>
    ELSE LET m == CHOOSE x \in S : \A y \in S : x <= y
         IN <<m>> \o Ascending(S \ {m})

InitWindows ==
    /\ text_length \in 0..MaxTextLen
    /\ positions \in {Ascending(S) : S \in {T \in SUBSET (0..(text_length - 1)) :
                                               Cardinality(T) <= MaxAnchors}}
    /\ windows = <<>>
    /\ pc = "start"
    /\ SpliceIdle /\ PipeIdle /\ MainIdle

BuildWindows ==
    /\ pc = "start"
    /\ windows' = build_windows(positions, text_length)
    /\ pc' = "done"
    /\ UNCHANGED <<positions, text_length, spliceVars, pipeVars, mainVars>>

NextWindows == BuildWindows

SpecWindows == InitWindows /\ [][NextWindows]_vars

(***************************************************************************)
(* SpecSplice: apply_replacements on every list of pairwise disjoint       *)
(* edits of a short text.                                                  *)
(***************************************************************************)
Letters == <<"t0", "t1", "t2", "t3", "t4", "t5", "t6", "t7">>
Inserted == {<<>>, <<"X">>, <<"Y", "Z">>}

\* half-open spans that share no offset
Disjoint(e1, e2) == e1[2] <= e2[1] \/ e2[2] <= e1[1]

PairwiseDisjoint(edits) ==
    \A i, j \in 1..Len(edits) : i < j => Disjoint(edits[i], edits[j])

EditsOf(n) == {Edit(s, e, r) : s \in 0..n, e \in 0..n, r \in Inserted}

InitSplice ==
    /\ \E n \in 0..MaxSpliceLen :
          /\ sp_text = SubSeq(Letters, 1, n)
          /\ \E k \in 0..MaxEdits :
                sp_edits \in {es \in [1..k -> {ed \in EditsOf(n) : ed[1] <= ed[2]}] :
                                 PairwiseDisjoint(es)}
    /\ sp_out = <<>>
    /\ pc = "start"
    /\ WinIdle /\ PipeIdle /\ MainIdle

ApplyReplacements ==
    /\ pc = "start"
    /\ sp_out' = apply_replacements(sp_text, sp_edits)
    /\ pc' = "done"
    /\ UNCHANGED <<sp_text, sp_edits, winVars, pipeVars, mainVars>>

NextSplice == ApplyReplacements

SpecSplice == InitSplice /\ [][NextSplice]_vars

(***************************************************************************)
(* SpecPipeline: patch_file applied to one file, and applied again to the  *)
(* text it left.                                                           *)
(***************************************************************************)
InitPipeline ==
    /\ buffer \in Texts(MaxFrags)
    /\ call = NoCall
    /\ pc = "start"
    /\ WinIdle /\ SpliceIdle /\ MainIdle

PatchOnce ==
    /\ pc = "start"
    /\ call' = patch_file(1, buffer, FALSE)
    /\ buffer' = call'.output
    /\ pc' = "patched"
    /\ UNCHANGED <<winVars, spliceVars, mainVars>>

PatchAgain ==
    /\ pc = "patched"
    /\ call' = patch_file(1, buffer, FALSE)
    /\ buffer' = call'.output
    /\ pc' = "repatched"
    /\ UNCHANGED <<winVars, spliceVars, mainVars>>

NextPipeline == PatchOnce \/ PatchAgain

SpecPipeline == InitPipeline /\ [][NextPipeline]_vars

(***************************************************************************)
(* SpecMain: one run of main over the candidate files of one search root.  *)
(* A file is a workbench bundle or not, and its I/O succeeds, or fails     *)
(* in read_text, or fails in write_text.                                   *)
(***************************************************************************)
Faults == {"none", "read", "write"}

StatCall == <<"a", ".", "stat", "(", "a", ")", ";">>

MainTexts ==
    { StatCall,                             \* a rule occurrence and no anchor
      <<ANCHOR>>,                           \* the anchor and nothing to rewrite
      <<ANCHOR>> \o StatCall,               \* a rule occurrence next to the anchor
      StatCall \o <<ANCHOR>>,               \* a rule occurrence before every window
      <<ANCHOR, NL, MARKER, NL>> }          \* the anchor and the marker

\* "workbench" in file_path.name
is_workbench_name(file) == file.workbench

\* [*workbench_paths, *other_paths]
candidate_order(fs) ==
    SelectSeq([k \in 1..Len(fs) |-> k], LAMBDA f : is_workbench_name(fs[f]))
    \o SelectSeq([k \in 1..Len(fs) |-> k], LAMBDA f : ~is_workbench_name(fs[f]))

\* patch_file raises: read_text fails, or write_text is called and fails
raises(fault, wrote) == fault = "read" \/ (fault = "write" /\ wrote)

\* except Exception: break
after_exception_mutant(remaining) == <<>>

\* except Exception: continue
after_exception(remaining) == Tail(remaining)

Count(S) == Cardinality(S)

\* the return statements of main
exit_of(relevant_results, marker_count, workbench_hits, workbench_rewritten, strict) ==
    IF relevant_results = 0
    THEN [exit_code |-> 0, verdict |-> "none_found"]
    ELSE IF marker_count = 0
    THEN [exit_code |-> IF strict THEN 1 ELSE 0, verdict |-> "no_markers"]
    ELSE IF workbench_hits > 0 /\ ~workbench_rewritten
    THEN [exit_code |-> IF strict THEN 1 ELSE 0, verdict |-> "workbench_not_rewritten"]
    ELSE [exit_code |-> 0,
          verdict |-> IF workbench_hits = 0 /\ strict THEN "extension_only" ELSE "success"]

\* the aggregates main computes from results
main_return(rs, strict) ==
    exit_of(Count({k \in 1..Len(rs) : rs[k].relevant}),
            Count({k \in 1..Len(rs) : rs[k].marker_present}),
            Count({k \in 1..Len(rs) : rs[k].relevant /\ rs[k].is_workbench}),
            \E k \in 1..Len(rs) :
                /\ rs[k].relevant /\ rs[k].is_workbench
                /\ rs[k].guard_replacements + rs[k].uri_replacements
                       + rs[k].uri_file_replacements > 0,
            strict)

InitMain ==
    /\ \E n \in 0..MaxFiles :
          /\ files \in [1..n -> [workbench : BOOLEAN, fault : Faults]]
          /\ disk \in [1..n -> MainTexts]
    /\ order = candidate_order(files)
    /\ queue = order
    /\ results = <<>> /\ log = <<>> /\ raised = {}
    /\ require_match \in BOOLEAN
    /\ exit_code = 0 /\ verdict = "running"
    /\ pc = "patch"
    /\ WinIdle /\ SpliceIdle /\ PipeIdle

\* results.append(patch_file(file_path))
PatchFile ==
    /\ pc = "patch" /\ queue # <<>>
    /\ \E f \in {Head(queue)} :
       \E c \in {patch_file(f, disk[f], is_workbench_name(files[f]))} :
          /\ ~raises(files[f].fault, c.wrote)
          /\ results' = Append(results, c.result)
          /\ log' = Append(log, c)
          /\ disk' = [disk EXCEPT ![f] = c.output]
    /\ queue' = Tail(queue)
    /\ UNCHANGED <<files, order, raised, require_match, exit_code, verdict, pc>>
    /\ UNCHANGED <<winVars, spliceVars, pipeVars>>

\* patch_file(file_path) raises and the loop goes on
PatchFileRaises ==
    /\ pc = "patch" /\ queue # <<>>
    /\ \E f \in {Head(queue)} :
       \E c \in {patch_file(f, disk[f], is_workbench_name(files[f]))} :
          /\ raises(files[f].fault, c.wrote)
          /\ raised' = raised \cup {f}
    /\ queue' = after_exception(queue)
    /\ UNCHANGED <<files, disk, order, results, log, require_match, exit_code, verdict, pc>>
    /\ UNCHANGED <<winVars, spliceVars, pipeVars>>

\* the summary and the return value
Report ==
    /\ pc = "patch" /\ queue = <<>>
    /\ exit_code' = main_return(results, require_match).exit_code
    /\ verdict' = main_return(results, require_match).verdict
    /\ pc' = "done"
    /\ UNCHANGED <<files, disk, order, queue, results, log, raised, require_match>>
    /\ UNCHANGED <<winVars, spliceVars, pipeVars>>

NextMain == PatchFile \/ PatchFileRaises \/ Report

SpecMain == InitMain /\ [][NextMain]_vars

(***************************************************************************)
(* Vocabulary of the properties.                                           *)
(***************************************************************************)
HasAnchor(text) == \E k \in 1..Len(text) : text[k] \in AnchorLex

HasMarker(text) == \E k \in 1..Len(text) : text[k] = MARKER

\* the offsets at which an occurrence of one of the three rules starts
Starts(matches) == {matches[k].start : k \in 1..Len(matches)}

Occurrences(text) ==
    Starts(finditer("GUARD", text)) \cup Starts(finditer("URI", text))
        \cup Starts(finditer("URI_FILE", text))

InSomeWindow(s, ws) == \E k \in 1..Len(ws) : ws[k][1] <= s /\ s <= ws[k][2]

\* the edit that appends the marker to a text
MarkerInsertion(text) == <<Len(text), Len(text), <<NL, MARKER, NL>>>>

RuleRewrites(r) == r.guard_replacements + r.uri_replacements + r.uri_file_replacements

RuleEdits(c) == {k \in 1..Len(c.replacements) : c.replacements[k] # MarkerInsertion(c.input)}

Ran == pc \in {"patched", "repatched"}

(***************************************************************************)
(* Properties of SpecPipeline.                                             *)
(***************************************************************************)
\* C1: a second run of patch_file on the text the first run left, when that
\* text holds the anchor, produces no edit at all (no rule rewrite, no marker
\* insertion), returns its input unchanged and writes nothing.
Idempotence ==
    (pc = "repatched" /\ HasAnchor(call.input)) =>
        /\ call.replacements = <<>>
        /\ call.output = call.input
        /\ ~call.wrote

\* C2: any two edits that compute_replacements returns for a buffer have
\* spans that share no offset.
OverlapSafety == Ran => PairwiseDisjoint(call.replacements)

\* C6: for a buffer without the anchor the result is neither relevant nor
\* patched, there is no edit, the output is the input, nothing is written
\* and the file keeps its text.
NoAnchorNoOp ==
    (Ran /\ ~HasAnchor(call.input)) =>
        /\ ~call.result.relevant /\ ~call.result.patched
        /\ call.replacements = <<>>
        /\ call.output = call.input
        /\ ~call.wrote
        /\ buffer = call.input

\* a buffer without the anchor that holds a rule occurrence has been patched
NoAnchorNoOpWitness ==
    /\ pc = "patched"
    /\ ~HasAnchor(call.input)
    /\ Occurrences(call.input) # {}

\* C7: every edit other than the marker insertion starts inside a window
\* (closed at both ends) built around an anchor, and the rule counters
\* count exactly those edits, so an occurrence outside every window is
\* neither rewritten nor counted.
WindowContainment ==
    Ran =>
        /\ \A k \in RuleEdits(call) : InSomeWindow(call.replacements[k][1], call.windows)
        /\ \A k \in 1..Len(call.windows) :
              \E q \in 1..Len(call.input) :
                  /\ call.input[q] \in AnchorLex
                  /\ call.windows[k][1] <= q - 1 /\ q - 1 <= call.windows[k][2]
        /\ RuleRewrites(call.result) = Cardinality(RuleEdits(call))
        /\ \A o \in Occurrences(call.input) :
              ~InSomeWindow(o, call.windows) =>
                  \A k \in 1..Len(call.replacements) : call.replacements[k][1] # o

\* a buffer with one occurrence outside every window and one rewritten
\* inside a window has been patched
WindowContainmentWitness ==
    /\ pc = "patched"
    /\ \E o \in Occurrences(call.input) : ~InSomeWindow(o, call.windows)
    /\ RuleRewrites(call.result) > 0

(***************************************************************************)
(* Properties of SpecWindows.                                              *)
(***************************************************************************)
\* C4: the windows build_windows returns are sorted by start and each
\* starts strictly after the previous one ends, so no two overlap or touch.
WindowDisjointness ==
    \A k \in 1..(Len(windows) - 1) :
        /\ windows[k][1] < windows[k + 1][1]
        /\ windows[k][2] < windows[k + 1][1]

\* build_windows merged some anchors and still returned several windows
WindowDisjointnessWitness ==
    /\ pc = "done"
    /\ Len(windows) >= 2
    /\ Len(positions) > Len(windows)

(***************************************************************************)
(* Properties of SpecSplice.                                               *)
(***************************************************************************)
\* the text rebuilt from left to right from edits in ascending order
RECURSIVE Rebuild(_, _, _)
Rebuild(text, ordered, cursor) ==
    IF ordered = <<>> THEN Slice(text, cursor, Len(text))
    ELSE Slice(text, cursor, Head(ordered)[1]) \o Head(ordered)[3]
         \o Rebuild(text, Tail(ordered), Head(ordered)[2])

\* the orders in which each edit ends where the next one starts or before
AscendingOrders(edits) ==
    {f \in [1..Len(edits) -> 1..Len(edits)] :
        /\ \A i, j \in 1..Len(edits) : i # j => f[i] # f[j]
        /\ \A i, j \in 1..Len(edits) : i < j => edits[f[i]][2] <= edits[f[j]][1]}

Expected(text, edits) ==
    {Rebuild(text, [k \in 1..Len(edits) |-> edits[f[k]]], 0) : f \in AscendingOrders(edits)}

\* C5: for pairwise disjoint edits given in any order, apply_replacements
\* returns the text in which each span is replaced by its replacement and
\* everything outside the spans is unchanged and in its original order.
SplicerCorrectness ==
    (pc = "done" /\ PairwiseDisjoint(sp_edits)) => sp_out \in Expected(sp_text, sp_edits)

(***************************************************************************)
(* Properties of SpecMain.  log[k] is the patch_file call that returned    *)
(* results[k].                                                             *)
(***************************************************************************)
\* the anchor, no marker, and no rule occurrence that starts inside a window
Unactionable(c) ==
    /\ HasAnchor(c.input)
    /\ ~HasMarker(c.input)
    /\ \A o \in Occurrences(c.input) : ~InSomeWindow(o, c.windows)

WorkbenchHits == {k \in 1..Len(results) : results[k].relevant /\ results[k].is_workbench}

\* the position of file f in the order main patches the files in
Turn(f) == CHOOSE k \in 1..Len(order) : order[k] = f

ErrorIsolation ==
    pc = "done" =>
        /\ queue = <<>>
        /\ \A f \in 1..Len(files) :
              Cardinality({k \in 1..Len(results) : results[k].path = f})
                  = IF f \in raised THEN 0 ELSE 1
        /\ \A f \in raised : files[f].fault # "none"

\* a file was patched after an earlier file raised
ErrorIsolationWitness ==
    /\ pc = "done"
    /\ \E f \in raised : \E k \in 1..Len(results) : Turn(results[k].path) > Turn(f)

\* C8 (as stated): a file whose processing raised has a result that is
\* reported as not patched.
FailureReported ==
    pc = "done" =>
        \A f \in raised : \E k \in 1..Len(results) :
            results[k].path = f /\ ~results[k].patched

\* C9: in strict mode main returns non-zero whenever no rule rewrite was
\* applied in the run.
StrictMode ==
    (pc = "done" /\ require_match /\ \A k \in 1..Len(results) : RuleRewrites(results[k]) = 0)
        => exit_code # 0

\* C10: every relevant result has marker_present, marker_added implies
\* marker_present, so a run with a relevant result counts a marker and
\* never leaves by the "Failed to insert" return.
MarkerAlwaysPresent ==
    /\ \A k \in 1..Len(results) :
          /\ results[k].relevant => results[k].marker_present
          /\ results[k].marker_added => results[k].marker_present
    /\ pc = "done" =>
          /\ verdict # "no_markers"
          /\ (\E k \in 1..Len(results) : results[k].relevant) =>
                 Cardinality({k \in 1..Len(results) : results[k].marker_present}) >= 1

\* a run has ended with a relevant result whose marker was added and a
\* relevant result whose marker was there before
MarkerAlwaysPresentWitness ==
    /\ pc = "done"
    /\ \E k \in 1..Len(results) : results[k].relevant /\ results[k].marker_added
    /\ \E k \in 1..Len(results) : results[k].relevant /\ ~results[k].marker_added

====
